---- MODULE Spec2Model ----
(***************************************************************************)
(* Model of the beacon API block handlers of ream                          *)
(* (crates/rpc/src/handlers/block.rs): block-id resolution, block and      *)
(* state lookup, the block-reward accumulations and the chain heads.       *)
(*                                                                         *)
(* The store (ReamDB) is written by the state-transition subsystem, which  *)
(* is outside the handlers; its writes are the actions OnBlock,            *)
(* UpdateJustified and UpdateFinalized.  Every store read of a handler can *)
(* fail (the provider returns Err), which is the input `fail' of the       *)
(* handler actions.                                                        *)
(***************************************************************************)
EXTENDS Integers, Sequences, FiniteSets, TLC

VARIABLES db, pending, response

vars == <<db, pending, response>>

\* ------------------------------------------------------------------ bounds

\* Block roots are 1..MaxRoots; ZeroRoot is the parent of the genesis block.
MaxRoots == 4
\* Slots are 0..MaxSlot.
MaxSlot == 3

\* Validators of a state; validator indices are 0..NumValidators-1.
NumValidators == 2
\* Epochs are 0..MaxEpoch.
MaxEpoch == 2
\* Longest attesting_indices list of an IndexedAttestation.
MaxIndices == 2
\* Most attestations of a block body.
MaxAttestations == 2
\* Most operations of each kind in the body of a block given to block_rewards.
MaxOperations == 1
\* Length of the sync committee bitfield.
MaxSyncBits == 3

\* ream_consensus::constants
EFFECTIVE_BALANCE_INCREMENT == 1000000000
PROPOSER_WEIGHT == 8
SLOTS_PER_EPOCH == 32
SYNC_COMMITTEE_SIZE == 512
SYNC_REWARD_WEIGHT == 2
WEIGHT_DENOMINATOR == 64
WHISTLEBLOWER_REWARD_QUOTIENT == 512

ZeroRoot == 0
Roots == 1..MaxRoots
Slots == 0..MaxSlot

\* ------------------------------------------------------------- identifiers

\* ID: Head | Genesis | Finalized | Justified | Slot(u64) | Root(B256)
IDs ==
    {[tag |-> t, val |-> 0] : t \in {"Head", "Genesis", "Finalized", "Justified"}}
        \cup {[tag |-> "Slot", val |-> n] : n \in Slots}
        \cup {[tag |-> "Root", val |-> r] : r \in Roots}

\* ApiError kinds and Ok, as the `kind' of a result.
Err(kind, reads) == [kind |-> kind, root |-> ZeroRoot, reads |-> reads]
Ok(root, reads) == [kind |-> "Ok", root |-> root, reads |-> reads]

\* ----------------------------------------------------------------- resolver

\* A resolver that looks the root of Root(r) up in the block table and treats
\* an empty slot as a failed read.
get_block_root_from_id_checked(block_id, store, fail) ==
    CASE block_id.tag = "Finalized" ->
            IF fail THEN Err("InternalError", {"finalized_checkpoint"})
            ELSE Ok(store.finalized_checkpoint, {"finalized_checkpoint"})
      [] block_id.tag = "Justified" ->
            IF fail THEN Err("InternalError", {"justified_checkpoint"})
            ELSE Ok(store.justified_checkpoint, {"justified_checkpoint"})
      [] block_id.tag \in {"Head", "Genesis"} -> Err("NotFound", {})
      [] block_id.tag = "Slot" ->
            IF fail \/ block_id.val \notin DOMAIN store.slot_index
            THEN Err("InternalError", {"slot_index"})
            ELSE Ok(store.slot_index[block_id.val], {"slot_index"})
      [] block_id.tag = "Root" ->
            IF block_id.val \in DOMAIN store.beacon_block
            THEN Ok(block_id.val, {"beacon_block"})
            ELSE Err("NotFound", {"beacon_block"})

\* get_block_root_from_id: the match on block_id, then map_err / ok_or_else.
\* `fail' says whether the provider read of this call returns Err.  `reads'
\* lists the tables the call read.
get_block_root_from_id(block_id, store, fail) ==
    CASE block_id.tag = "Finalized" ->
            IF fail THEN Err("InternalError", {"finalized_checkpoint"})
            ELSE Ok(store.finalized_checkpoint, {"finalized_checkpoint"})
      [] block_id.tag = "Justified" ->
            IF fail THEN Err("InternalError", {"justified_checkpoint"})
            ELSE Ok(store.justified_checkpoint, {"justified_checkpoint"})
      [] block_id.tag \in {"Head", "Genesis"} -> Err("NotFound", {})
      [] block_id.tag = "Slot" ->
            IF fail THEN Err("InternalError", {"slot_index"})
            ELSE IF block_id.val \in DOMAIN store.slot_index
                 THEN Ok(store.slot_index[block_id.val], {"slot_index"})
                 ELSE Err("NotFound", {"slot_index"})
      [] block_id.tag = "Root" -> Ok(block_id.val, {})

\* get_beacon_block_from_id: resolve, then beacon_block_provider().get(root).
get_beacon_block_from_id(block_id, store, fail_resolve, fail_get) ==
    LET r == get_block_root_from_id(block_id, store, fail_resolve) IN
    IF r.kind # "Ok" THEN r
    ELSE IF fail_get THEN Err("InternalError", r.reads \cup {"beacon_block"})
    ELSE IF r.root \in DOMAIN store.beacon_block
         THEN Ok(r.root, r.reads \cup {"beacon_block"})
         ELSE Err("NotFound", r.reads \cup {"beacon_block"})

\* get_beacon_state: resolve, then beacon_state_provider().get(root).  The
\* result's root is the root the returned state is stored under.
get_beacon_state(block_id, store, fail_resolve, fail_get) ==
    LET r == get_block_root_from_id(block_id, store, fail_resolve) IN
    IF r.kind # "Ok" THEN r
    ELSE IF fail_get THEN Err("InternalError", r.reads \cup {"beacon_state"})
    ELSE IF r.root \in store.beacon_state
         THEN Ok(r.root, r.reads \cup {"beacon_state"})
         ELSE Err("NotFound", r.reads \cup {"beacon_state"})

\* -------------------------------------------------------------------- store

\* A stored block.  `root' is its tree_hash_root, the key it is stored under.
Block(root, parent_root, slot) ==
    [root |-> root, parent_root |-> parent_root, slot |-> slot]

NoResponse == [op |-> "none"]
Idle == [pc |-> "idle"]

\* The database after genesis: the genesis block and state, both checkpoints
\* at the genesis root.
Init ==
    /\ db = [beacon_block |-> (1 :> Block(1, ZeroRoot, 0)),
             beacon_state |-> {1},
             slot_index |-> (0 :> 1),
             finalized_checkpoint |-> 1,
             justified_checkpoint |-> 1]
    /\ pending = Idle
    /\ response = NoResponse

\* The state transition stores a new block on a stored parent at a later
\* slot, the state after it under the block's root, and the slot index entry.
OnBlock ==
    \E p \in DOMAIN db.beacon_block :
    \E s \in Slots :
        LET r == Cardinality(DOMAIN db.beacon_block) + 1 IN
        /\ response = NoResponse
        /\ r \in Roots
        /\ s > db.beacon_block[p].slot
        /\ db' = [db EXCEPT
                    !.beacon_block = [x \in DOMAIN db.beacon_block \cup {r} |->
                        IF x = r THEN Block(r, p, s) ELSE db.beacon_block[x]],
                    !.beacon_state = @ \cup {r},
                    !.slot_index = [n \in DOMAIN db.slot_index \cup {s} |->
                        IF n = s THEN r ELSE db.slot_index[n]]]
        /\ UNCHANGED <<pending, response>>

\* The checkpoints move to stored blocks of later slots.
UpdateJustified ==
    \E r \in DOMAIN db.beacon_block :
        /\ response = NoResponse
        /\ db.beacon_block[r].slot > db.beacon_block[db.justified_checkpoint].slot
        /\ db' = [db EXCEPT !.justified_checkpoint = r]
        /\ UNCHANGED <<pending, response>>

UpdateFinalized ==
    \E r \in DOMAIN db.beacon_block :
        /\ response = NoResponse
        /\ db.beacon_block[r].slot > db.beacon_block[db.finalized_checkpoint].slot
        /\ db' = [db EXCEPT !.finalized_checkpoint = r]
        /\ UNCHANGED <<pending, response>>

\* ----------------------------------------------------------------- handlers

\* A behaviour follows one request: `response' is NoResponse until the
\* request is answered, and the behaviour ends with the response, so that db
\* in a state with a response is the store as the request left it.  The
\* handlers never write the store, so requests do not influence each other.

\* GET /beacon/blocks/{block_id}/root
get_block_root ==
    /\ response = NoResponse
    /\ \E block_id \in IDs, fail \in BOOLEAN :
        /\ response' = [op |-> "get_block_root", id |-> block_id, fail |-> fail,
                        result |-> get_block_root_from_id(block_id, db, fail)]
        /\ UNCHANGED <<db, pending>>

\* GET /beacon/blocks/{block_id}/rewards, first await: the block is fetched
\* by resolving block_id.  An error ends the call.
get_block_rewards_block ==
    \E block_id \in IDs, fail_resolve \in BOOLEAN, fail_get \in BOOLEAN :
        LET b == get_beacon_block_from_id(block_id, db, fail_resolve, fail_get) IN
        /\ pending.pc = "idle"
        /\ response = NoResponse
        /\ IF b.kind = "Ok"
           THEN /\ pending' = [pc |-> "have_block", id |-> block_id,
                               block_root |-> b.root]
                /\ UNCHANGED response
           ELSE /\ response' = [op |-> "get_block_rewards", id |-> block_id,
                                result |-> [kind |-> b.kind]]
                /\ UNCHANGED pending
        /\ UNCHANGED db

\* GET /beacon/blocks/{block_id}/rewards, second await: the state is fetched
\* by resolving block_id again, and the rewards are computed on that block
\* and that state.  The response names the roots the two are stored under.
get_block_rewards_state ==
    \E fail_resolve \in BOOLEAN, fail_get \in BOOLEAN :
        LET s == get_beacon_state(pending.id, db, fail_resolve, fail_get) IN
        /\ pending.pc = "have_block"
        /\ response' = [op |-> "get_block_rewards", id |-> pending.id,
                        result |-> IF s.kind = "Ok"
                                   THEN [kind |-> "Ok",
                                         beacon_block |-> pending.block_root,
                                         beacon_state |-> s.root]
                                   ELSE [kind |-> s.kind]]
        /\ pending' = Idle
        /\ UNCHANGED db

\* ------------------------------------------------------------------- heads

Children(store, r) ==
    {c \in DOMAIN store.beacon_block : store.beacon_block[c].parent_root = r}

\* Store::filter_block_tree: the stored descendants of block_root that lead
\* to a viable leaf; `viable' is fork choice's verdict on the leaves.
RECURSIVE filter_block_tree(_, _, _)
filter_block_tree(block_root, store, viable) ==
    IF block_root \notin DOMAIN store.beacon_block THEN {}
    ELSE IF Children(store, block_root) = {}
         THEN (IF block_root \in viable THEN {block_root} ELSE {})
         ELSE LET below == UNION {filter_block_tree(c, store, viable) :
                                      c \in Children(store, block_root)}
              IN IF below = {} THEN {} ELSE below \cup {block_root}

\* The iteration orders of a HashMap with the keys S.
RECURSIVE Orders(_)
Orders(S) ==
    IF S = {} THEN {<<>>}
    ELSE UNION {{<<x>> \o o : o \in Orders(S \ {x})} : x \in S}

\* Heads taken to be the entries whose parent is outside the mapping.
beacon_heads_by_parent(blocks, order) ==
    LET keep(r) == blocks[r].parent_root \notin DOMAIN blocks
        kept == SelectSeq(order, keep)
    IN [i \in 1..Len(kept) |->
           [root |-> blocks[kept[i]].root, slot |-> blocks[kept[i]].slot,
            execution_optimistic |-> FALSE]]

\* get_beacon_heads, the two loops over `blocks': the referenced parents,
\* then a leaf for every entry whose key is not among them.
beacon_heads(blocks, order) ==
    LET referenced_parents == {blocks[r].parent_root : r \in DOMAIN blocks}
        keep(r) == r \notin referenced_parents
        kept == SelectSeq(order, keep)
    IN [i \in 1..Len(kept) |->
           [root |-> blocks[kept[i]].root, slot |-> blocks[kept[i]].slot,
            execution_optimistic |-> FALSE]]

\* The stored blocks without a stored child.
Leaves(store) ==
    {r \in DOMAIN store.beacon_block : Children(store, r) = {}}

\* GET /beacon/heads.  `fail' is a failed read of the justified checkpoint or
\* an error of filter_block_tree.
get_beacon_heads ==
    \/ /\ response = NoResponse
       /\ response' = [op |-> "get_beacon_heads",
                       result |-> [kind |-> "InternalError"]]
       /\ UNCHANGED <<db, pending>>
    \/ /\ response = NoResponse
       /\ \E viable \in SUBSET Leaves(db) :
        LET keys == filter_block_tree(db.justified_checkpoint, db, viable)
            blocks == [r \in keys |-> db.beacon_block[r]]
        IN \E order \in Orders(keys) :
            /\ response' =
                 [op |-> "get_beacon_heads",
                  result |-> [kind |-> "Ok", blocks |-> blocks,
                              leaves |-> beacon_heads(blocks, order)]]
            /\ UNCHANGED <<db, pending>>

\* ------------------------------------------------------- states and bodies

SeqsUpTo(S, n) == UNION {[1..k -> S] : k \in 0..n}
Range(f) == {f[i] : i \in DOMAIN f}

Validator(effective_balance, slashed, activation_epoch, withdrawable_epoch) ==
    [effective_balance |-> effective_balance, slashed |-> slashed,
     activation_epoch |-> activation_epoch,
     withdrawable_epoch |-> withdrawable_epoch]

\* A validator active in epoch 1 only, one active in every epoch of the
\* model, and a slashed one.
Validators ==
    {Validator(1000, FALSE, 1, 2), Validator(2048, FALSE, 0, MaxEpoch + 1),
     Validator(1536, TRUE, 0, MaxEpoch + 1)}

\* A BeaconState, as far as the reward functions read it.  proposer_reward
\* is get_proposer_reward by validator index, total_active_balance and
\* base_reward_per_increment are the results of the getters of those names.
BeaconState(validators, current_epoch, balance, base_reward, proposer_reward) ==
    [validators |-> validators, current_epoch |-> current_epoch,
     total_active_balance |-> balance,
     base_reward_per_increment |-> base_reward,
     proposer_reward |-> proposer_reward]

ValidatorLists == [1..NumValidators -> Validators]
Epochs == 0..MaxEpoch
TotalActiveBalances == {0, 999999999, 1000000000, 2000000000, 2147483647}
BaseRewardsPerIncrement == {0, 3200000, 3670016, 123456789}
ProposerRewards == [1..NumValidators -> {3, 5}]

DefaultValidators == [i \in 1..NumValidators |-> Validator(2048, FALSE, 0, MaxEpoch + 1)]
DefaultProposerReward == [i \in 1..NumValidators |-> 3]

\* Validator indices a block can name: those of the state and one past them.
Indices == 0..NumValidators
IndexLists == SeqsUpTo(Indices, MaxIndices)

\* An attestation with what get_attesting_indices gives for it: Err, or the
\* set of attesting validator indices.
Attestations ==
    [resolves : BOOLEAN, attesting_indices : SUBSET (0..(NumValidators - 1))]

AttesterSlashings == [attestation_1 : IndexLists, attestation_2 : IndexLists]

BitFields == [1..MaxSyncBits -> {0, 1}]

BeaconBlock(attestations, proposer_slashings, attester_slashings, sync_committee_bits) ==
    [attestations |-> attestations, proposer_slashings |-> proposer_slashings,
     attester_slashings |-> attester_slashings,
     sync_committee_bits |-> sync_committee_bits]

\* ------------------------------------------------------------------ rewards

\* A call returns a value or aborts by a fault (a panic).
Returned(value) == [fault |-> FALSE, value |-> value]
Faulted == [fault |-> TRUE]

\* validators[index as usize]
InBounds(beacon_state, index) == index < Len(beacon_state.validators)
ValidatorAt(beacon_state, index) == beacon_state.validators[index + 1]

\* Validator::is_slashable_validator
is_slashable_validator(validator, epoch) ==
    /\ ~validator.slashed
    /\ validator.activation_epoch <= epoch
    /\ epoch < validator.withdrawable_epoch

get_proposer_reward(beacon_state, index) == beacon_state.proposer_reward[index + 1]

\* The elements of a set of numbers in ascending order (BTreeSet iteration).
RECURSIVE Ascending(_)
Ascending(S) ==
    IF S = {} THEN <<>>
    ELSE LET m == CHOOSE x \in S : \A y \in S : x <= y
         IN <<m>> \o Ascending(S \ {m})

\* The inner loop of get_attestations_rewards over the attesting indices.
RECURSIVE attesting_indices_loop(_, _, _)
attesting_indices_loop(beacon_state, attesting_indices, attester_reward) ==
    IF attesting_indices = {} THEN attester_reward
    ELSE LET index == CHOOSE x \in attesting_indices : TRUE
         IN attesting_indices_loop(beacon_state, attesting_indices \ {index},
                attester_reward + get_proposer_reward(beacon_state, index))

NumSetBits(bits) == Cardinality({i \in DOMAIN bits : bits[i] = 1})

\* A loop over the attestations that ends at the first attestation whose
\* get_attesting_indices is Err.
RECURSIVE attestations_loop_until_err(_, _, _)
attestations_loop_until_err(beacon_state, attestations, attester_reward) ==
    IF attestations = <<>> THEN attester_reward
    ELSE LET attestation == Head(attestations) IN
         IF attestation.resolves
         THEN attestations_loop_until_err(beacon_state, Tail(attestations),
                attesting_indices_loop(beacon_state, attestation.attesting_indices,
                                       attester_reward))
         ELSE attester_reward

\* get_attestations_rewards: the loop over the attestations; an attestation
\* whose get_attesting_indices is Err is skipped.
RECURSIVE attestations_loop(_, _, _)
attestations_loop(beacon_state, attestations, attester_reward) ==
    IF attestations = <<>> THEN attester_reward
    ELSE LET attestation == Head(attestations) IN
         attestations_loop(beacon_state, Tail(attestations),
            IF attestation.resolves
            THEN attesting_indices_loop(beacon_state, attestation.attesting_indices,
                                        attester_reward)
            ELSE attester_reward)

get_attestations_rewards(beacon_state, beacon_block) ==
    attestations_loop(beacon_state, beacon_block.attestations, 0)

\* A sync committee reward that scales by the set bits before the last
\* division.
get_sync_committee_rewards_scaled_early(beacon_state, beacon_block) ==
    LET total_active_increments ==
            beacon_state.total_active_balance \div EFFECTIVE_BALANCE_INCREMENT
        total_base_rewards ==
            beacon_state.base_reward_per_increment * total_active_increments
        max_participant_rewards ==
            ((total_base_rewards * SYNC_REWARD_WEIGHT) \div WEIGHT_DENOMINATOR)
                \div SLOTS_PER_EPOCH
        participant_reward == max_participant_rewards \div SYNC_COMMITTEE_SIZE
    IN (NumSetBits(beacon_block.sync_committee_bits) * participant_reward
            * PROPOSER_WEIGHT) \div (WEIGHT_DENOMINATOR - PROPOSER_WEIGHT)

\* get_sync_committee_rewards
get_sync_committee_rewards(beacon_state, beacon_block) ==
    LET total_active_balance == beacon_state.total_active_balance
        total_active_increments == total_active_balance \div EFFECTIVE_BALANCE_INCREMENT
        total_base_rewards ==
            beacon_state.base_reward_per_increment * total_active_increments
        max_participant_rewards ==
            ((total_base_rewards * SYNC_REWARD_WEIGHT) \div WEIGHT_DENOMINATOR)
                \div SLOTS_PER_EPOCH
        participant_reward == max_participant_rewards \div SYNC_COMMITTEE_SIZE
        proposer_reward ==
            (participant_reward * PROPOSER_WEIGHT)
                \div (WEIGHT_DENOMINATOR - PROPOSER_WEIGHT)
    IN NumSetBits(beacon_block.sync_committee_bits) * proposer_reward

\* get_slashable_attester_indices: the loop over the intersection of the two
\* BTreeSets, in ascending order; validators[index] faults out of bounds.
RECURSIVE slashable_loop(_, _, _)
slashable_loop(beacon_state, indices, slashing_indices) ==
    IF indices = <<>> THEN Returned(slashing_indices)
    ELSE LET index == Head(indices) IN
         IF ~InBounds(beacon_state, index) THEN Faulted
         ELSE slashable_loop(beacon_state, Tail(indices),
                IF is_slashable_validator(ValidatorAt(beacon_state, index),
                                          beacon_state.current_epoch)
                THEN Append(slashing_indices, index)
                ELSE slashing_indices)

get_slashable_attester_indices(beacon_state, attester_slashing) ==
    LET attestation_indices_1 == Range(attester_slashing.attestation_1)
        attestation_indices_2 == Range(attester_slashing.attestation_2)
    IN slashable_loop(beacon_state,
                      Ascending(attestation_indices_1 \cap attestation_indices_2),
                      <<>>)

\* get_proposer_slashing_rewards: the loop; validators[index] faults out of
\* bounds.
RECURSIVE proposer_slashing_loop(_, _, _)
proposer_slashing_loop(beacon_state, proposer_slashings, proposer_slashing_reward) ==
    IF proposer_slashings = <<>> THEN Returned(proposer_slashing_reward)
    ELSE LET index == Head(proposer_slashings) IN
         IF ~InBounds(beacon_state, index) THEN Faulted
         ELSE proposer_slashing_loop(beacon_state, Tail(proposer_slashings),
                proposer_slashing_reward
                    + ValidatorAt(beacon_state, index).effective_balance)

get_proposer_slashing_rewards(beacon_state, beacon_block) ==
    proposer_slashing_loop(beacon_state, beacon_block.proposer_slashings, 0)

\* get_attester_slashing_rewards, the inner loop over the slashable indices.
RECURSIVE whistleblower_loop(_, _, _)
whistleblower_loop(beacon_state, indices, attester_slashing_reward) ==
    IF indices = <<>> THEN Returned(attester_slashing_reward)
    ELSE LET index == Head(indices) IN
         IF ~InBounds(beacon_state, index) THEN Faulted
         ELSE whistleblower_loop(beacon_state, Tail(indices),
                attester_slashing_reward
                    + (ValidatorAt(beacon_state, index).effective_balance
                          \div WHISTLEBLOWER_REWARD_QUOTIENT))

\* get_attester_slashing_rewards, the outer loop over the attester slashings.
RECURSIVE attester_slashing_loop(_, _, _)
attester_slashing_loop(beacon_state, attester_slashings, attester_slashing_reward) ==
    IF attester_slashings = <<>> THEN Returned(attester_slashing_reward)
    ELSE LET indices == get_slashable_attester_indices(beacon_state,
                                                       Head(attester_slashings))
         IN IF indices.fault THEN Faulted
            ELSE LET r == whistleblower_loop(beacon_state, indices.value,
                                             attester_slashing_reward)
                 IN IF r.fault THEN Faulted
                    ELSE attester_slashing_loop(beacon_state,
                                                Tail(attester_slashings), r.value)

get_attester_slashing_rewards(beacon_state, beacon_block) ==
    attester_slashing_loop(beacon_state, beacon_block.attester_slashings, 0)

\* get_block_rewards after the block and the state are fetched: the four
\* accumulations, in the order the handler runs them, and their total.
block_rewards(beacon_state, beacon_block) ==
    LET attestation_reward == get_attestations_rewards(beacon_state, beacon_block)
        attester_slashing_reward ==
            get_attester_slashing_rewards(beacon_state, beacon_block)
        proposer_slashing_reward ==
            get_proposer_slashing_rewards(beacon_state, beacon_block)
        sync_committee_reward == get_sync_committee_rewards(beacon_state, beacon_block)
    IN IF attester_slashing_reward.fault \/ proposer_slashing_reward.fault
       THEN Faulted
       ELSE Returned(
              [total |-> attestation_reward + sync_committee_reward
                           + proposer_slashing_reward.value
                           + attester_slashing_reward.value,
               attestations |-> attestation_reward,
               sync_aggregate |-> sync_committee_reward,
               proposer_slashings |-> proposer_slashing_reward.value,
               attester_slashings |-> attester_slashing_reward.value])

\* ---------------------------------------------------------- reward calls

\* get_slashable_attester_indices on a state and an attester slashing.
call_get_slashable_attester_indices ==
    /\ response = NoResponse
    /\ \E validators \in ValidatorLists, epoch \in Epochs,
       attester_slashing \in AttesterSlashings :
        LET beacon_state == BeaconState(validators, epoch, 0, 0, DefaultProposerReward) IN
        /\ response' = [op |-> "get_slashable_attester_indices",
                        beacon_state |-> beacon_state,
                        attester_slashing |-> attester_slashing,
                        result |-> get_slashable_attester_indices(beacon_state,
                                                                  attester_slashing)]
        /\ UNCHANGED <<db, pending>>

\* The reward computation of get_block_rewards on a state and a block.
call_block_rewards ==
    /\ response = NoResponse
    /\ \E validators \in ValidatorLists, epoch \in Epochs,
       attestations \in SeqsUpTo(Attestations, MaxOperations),
       proposer_slashings \in SeqsUpTo(Indices, MaxOperations),
       attester_slashings \in SeqsUpTo(AttesterSlashings, MaxOperations) :
        LET beacon_state == BeaconState(validators, epoch, 2000000000, 123456789,
                                        DefaultProposerReward)
            beacon_block == BeaconBlock(attestations, proposer_slashings,
                                        attester_slashings,
                                        [i \in 1..MaxSyncBits |-> 1])
        IN /\ response' = [op |-> "block_rewards",
                           beacon_state |-> beacon_state,
                           beacon_block |-> beacon_block,
                           result |-> block_rewards(beacon_state, beacon_block)]
           /\ UNCHANGED <<db, pending>>

\* get_attestations_rewards on a state and a block's attestations.
call_get_attestations_rewards ==
    /\ response = NoResponse
    /\ \E proposer_reward \in ProposerRewards,
       attestations \in SeqsUpTo(Attestations, MaxAttestations) :
        LET beacon_state == BeaconState(DefaultValidators, 0, 0, 0, proposer_reward)
            beacon_block == BeaconBlock(attestations, <<>>, <<>>,
                                        [i \in 1..MaxSyncBits |-> 0])
        IN /\ response' = [op |-> "get_attestations_rewards",
                           beacon_state |-> beacon_state,
                           beacon_block |-> beacon_block,
                           result |-> get_attestations_rewards(beacon_state,
                                                               beacon_block)]
           /\ UNCHANGED <<db, pending>>

\* get_sync_committee_rewards on one state and two blocks.
call_get_sync_committee_rewards ==
    /\ response = NoResponse
    /\ \E total_active_balance \in TotalActiveBalances,
       base_reward_per_increment \in BaseRewardsPerIncrement,
       bits \in BitFields, more_bits \in BitFields :
        LET beacon_state == BeaconState(DefaultValidators, 0, total_active_balance,
                                        base_reward_per_increment,
                                        DefaultProposerReward)
            beacon_block == BeaconBlock(<<>>, <<>>, <<>>, bits)
            other_block == BeaconBlock(<<>>, <<>>, <<>>, more_bits)
        IN /\ response' = [op |-> "get_sync_committee_rewards",
                           beacon_state |-> beacon_state,
                           beacon_block |-> beacon_block,
                           other_block |-> other_block,
                           result |-> get_sync_committee_rewards(beacon_state,
                                                                 beacon_block),
                           other_result |-> get_sync_committee_rewards(beacon_state,
                                                                       other_block)]
           /\ UNCHANGED <<db, pending>>

\* ----------------------------------------------------------- specifications

\* The store and the handlers that read it.
Next ==
    \/ OnBlock \/ UpdateJustified \/ UpdateFinalized
    \/ get_block_root
    \/ get_block_rewards_block \/ get_block_rewards_state
    \/ get_beacon_heads

Spec == Init /\ [][Next]_vars

\* The store and one operation each.
NextResolve == OnBlock \/ UpdateJustified \/ UpdateFinalized \/ get_block_root

SpecResolve == Init /\ [][NextResolve]_vars

NextBlockRewards ==
    \/ OnBlock \/ UpdateJustified \/ UpdateFinalized
    \/ get_block_rewards_block \/ get_block_rewards_state

SpecBlockRewards == Init /\ [][NextBlockRewards]_vars

NextHeads == OnBlock \/ UpdateJustified \/ UpdateFinalized \/ get_beacon_heads

SpecHeads == Init /\ [][NextHeads]_vars

\* The reward functions on every state and block of the bounds.
NextSlashings == call_get_slashable_attester_indices \/ call_block_rewards

SpecSlashings == Init /\ [][NextSlashings]_vars

NextAttestations == call_get_attestations_rewards

SpecAttestations == Init /\ [][NextAttestations]_vars

NextSync == call_get_sync_committee_rewards

SpecSync == Init /\ [][NextSync]_vars

\* ------------------------------------------------------------------ claims

\* C1: get_block_root_from_id called with Head or Genesis returns the error
\* kind NotSupported (not NotFound, not InternalError), for any store
\* contents, and without reading the store.
C1_HeadGenesisNotSupported ==
    (response.op = "get_block_root" /\ response.id.tag \in {"Head", "Genesis"})
        => (response.result.kind = "NotSupported" /\ response.result.reads = {})

\* C2: get_block_root_from_id(Root(r)) returns Ok(r) whatever the store
\* holds; with Slot(n) it returns InternalError when the slot index read
\* fails, else NotFound when the slot index holds no root for n, else the
\* root stored at n.
C2_RootAndSlotResolution ==
    response.op = "get_block_root" =>
        LET id == response.id
            res == response.result
        IN /\ id.tag = "Root" => (res.kind = "Ok" /\ res.root = id.val)
           /\ id.tag = "Slot" =>
                IF response.fail THEN res.kind = "InternalError"
                ELSE IF id.val \in DOMAIN db.slot_index
                     THEN res.kind = "Ok" /\ res.root = db.slot_index[id.val]
                     ELSE res.kind = "NotFound"

\* C2 witness: Root(r) was resolved to r while no block with root r is stored.
C2_Witness ==
    /\ response.op = "get_block_root"
    /\ response.id.tag = "Root"
    /\ response.id.val \notin DOMAIN db.beacon_block
    /\ response.result.kind = "Ok"
    /\ response.result.root = response.id.val

HeadRoots(leaves) == {leaves[i].root : i \in DOMAIN leaves}

\* C3: for the mapping filter_block_tree produced, a block B of it is among
\* the returned heads iff no other block of the mapping has parent_root equal
\* to B's key; every head is returned once; a non-empty mapping yields a
\* head; and root 1 with children 2 and 3, where 2 has child 4, yields
\* exactly the heads {3, 4}.
C3_HeadDefinition ==
    (response.op = "get_beacon_heads" /\ response.result.kind = "Ok") =>
        LET blocks == response.result.blocks
            leaves == response.result.leaves
        IN /\ HeadRoots(leaves) \subseteq DOMAIN blocks
           /\ \A B \in DOMAIN blocks :
                (B \in HeadRoots(leaves)) <=>
                    ~ \E other \in DOMAIN blocks \ {B} :
                          blocks[other].parent_root = B
           /\ \A i, j \in DOMAIN leaves : leaves[i].root = leaves[j].root => i = j
           /\ \A i \in DOMAIN leaves : leaves[i].slot = blocks[leaves[i].root].slot
           /\ DOMAIN blocks # {} => Len(leaves) >= 1
           /\ (/\ DOMAIN blocks = {1, 2, 3, 4}
               /\ blocks[2].parent_root = 1
               /\ blocks[3].parent_root = 1
               /\ blocks[4].parent_root = 2) => HeadRoots(leaves) = {3, 4}

\* C3 witness: the heads of the tree 1 <- 2, 1 <- 3, 2 <- 4 were returned.
C3_Witness ==
    /\ response.op = "get_beacon_heads"
    /\ response.result.kind = "Ok"
    /\ DOMAIN response.result.blocks = {1, 2, 3, 4}
    /\ response.result.blocks[2].parent_root = 1
    /\ response.result.blocks[3].parent_root = 1
    /\ response.result.blocks[4].parent_root = 2
    /\ HeadRoots(response.result.leaves) = {3, 4}

\* C5: the rewards of a block are computed against the pre-block state, the
\* state of the block's parent, not the state stored under the block's root.
C5_RewardsUsePreBlockState ==
    (/\ response.op = "get_block_rewards"
     /\ response.result.kind = "Ok"
     /\ db.beacon_block[response.result.beacon_block].parent_root
            \in db.beacon_state)
        => response.result.beacon_state =
               db.beacon_block[response.result.beacon_block].parent_root

\* C10: within one get_block_rewards call the block and the state used are
\* stored under the same block root, also when the store's checkpoints or
\* slot index are written between the call's two identifier resolutions.
C10_BlockAndStateSameRoot ==
    (response.op = "get_block_rewards" /\ response.result.kind = "Ok")
        => response.result.beacon_state = response.result.beacon_block

\* C4: get_slashable_attester_indices returns exactly the validator indices
\* that occur in both attesting_indices lists and whose validator is
\* slashable at the state's current epoch, in strictly ascending order
\* without duplicates, for every state and attester slashing (unsorted and
\* duplicated index lists included).
C4_SlashableIndices ==
    response.op = "get_slashable_attester_indices" =>
        LET beacon_state == response.beacon_state
            in_both == Range(response.attester_slashing.attestation_1)
                          \cap Range(response.attester_slashing.attestation_2)
            slashable ==
                {i \in in_both :
                    /\ i < Len(beacon_state.validators)
                    /\ ~beacon_state.validators[i + 1].slashed
                    /\ beacon_state.validators[i + 1].activation_epoch
                          <= beacon_state.current_epoch
                    /\ beacon_state.current_epoch
                          < beacon_state.validators[i + 1].withdrawable_epoch}
        IN /\ ~response.result.fault
           /\ Range(response.result.value) = slashable
           /\ \A i, j \in DOMAIN response.result.value :
                  i < j => response.result.value[i] < response.result.value[j]

\* C6: the reward computation of get_block_rewards never aborts by a fault,
\* also when a proposer slashing's proposer_index or an attester slashing's
\* attesting index is not below the number of validators of the state.
C6_RewardsNeverFault ==
    response.op = "block_rewards" => ~response.result.fault

\* The sum of proposer_reward over a set of <<attestation position, index>>.
RECURSIVE PairRewardSum(_, _)
PairRewardSum(proposer_reward, pairs) ==
    IF pairs = {} THEN 0
    ELSE LET p == CHOOSE x \in pairs : TRUE
         IN proposer_reward[p[2] + 1] + PairRewardSum(proposer_reward, pairs \ {p})

\* C7: get_attestations_rewards returns the sum of get_proposer_reward over
\* the attesting indices of exactly the attestations that resolve, wherever
\* the failing attestations stand in the body: a failing attestation adds
\* zero and does not end the loop.
C7_FailedAttestationAddsZero ==
    response.op = "get_attestations_rewards" =>
        LET attestations == response.beacon_block.attestations
            resolved ==
                {<<i, index>> \in (DOMAIN attestations) \X (0..(NumValidators - 1)) :
                    /\ attestations[i].resolves
                    /\ index \in attestations[i].attesting_indices}
        IN response.result =
               PairRewardSum(response.beacon_state.proposer_reward, resolved)

\* C7 witness: a failing attestation stands before one that resolves to all
\* validators, and the reward of the latter is returned.
C7_Witness ==
    /\ response.op = "get_attestations_rewards"
    /\ Len(response.beacon_block.attestations) = 2
    /\ ~response.beacon_block.attestations[1].resolves
    /\ response.beacon_block.attestations[1].attesting_indices # {}
    /\ response.beacon_block.attestations[2].resolves
    /\ response.beacon_block.attestations[2].attesting_indices
           = 0..(NumValidators - 1)
    /\ response.result > 0

\* C8: get_sync_committee_rewards returns proposer_share times the number of
\* set bits, with proposer_share = participant_reward * PROPOSER_WEIGHT /
\* (WEIGHT_DENOMINATOR - PROPOSER_WEIGHT) and participant_reward =
\* (total_active_balance / EFFECTIVE_BALANCE_INCREMENT) *
\* base_reward_per_increment * SYNC_REWARD_WEIGHT / WEIGHT_DENOMINATOR /
\* SLOTS_PER_EPOCH / SYNC_COMMITTEE_SIZE, every division truncating; so on one
\* state twice the set bits give twice the reward, and no set bit gives 0.
C8_SyncCommitteeReward ==
    response.op = "get_sync_committee_rewards" =>
        LET participant_reward ==
                ((((response.beacon_state.total_active_balance
                        \div EFFECTIVE_BALANCE_INCREMENT)
                    * response.beacon_state.base_reward_per_increment
                    * SYNC_REWARD_WEIGHT) \div WEIGHT_DENOMINATOR)
                    \div SLOTS_PER_EPOCH) \div SYNC_COMMITTEE_SIZE
            proposer_share ==
                (participant_reward * PROPOSER_WEIGHT)
                    \div (WEIGHT_DENOMINATOR - PROPOSER_WEIGHT)
            set_bits == NumSetBits(response.beacon_block.sync_committee_bits)
            more_set_bits == NumSetBits(response.other_block.sync_committee_bits)
        IN /\ response.result = proposer_share * set_bits
           /\ more_set_bits = 2 * set_bits =>
                  response.other_result = 2 * response.result
           /\ set_bits = 0 => response.result = 0

\* C8 witness: a non-zero reward, and the reward of a bitfield with twice the
\* set bits on the same state.
C8_Witness ==
    /\ response.op = "get_sync_committee_rewards"
    /\ response.result > 0
    /\ NumSetBits(response.other_block.sync_committee_bits)
           = 2 * NumSetBits(response.beacon_block.sync_committee_bits)
    /\ response.other_result = 2 * response.result

====
